---- MODULE Spec2Model ----
(***************************************************************************)
(* Model of the content normalization / aggregation pipeline of the Exa    *)
(* MCP worker: utils/markdown.ts (cleanHtmlContent, convertToMarkdown,     *)
(* formatSearchResultsToMarkdown, convertJsonToMarkdown), the crawling     *)
(* tool handler (tools/crawling.ts) and the tool activation logic of       *)
(* worker.ts.                                                              *)
(*                                                                         *)
(* A JavaScript string is a sequence of one-character strings; a few       *)
(* HTML tags are single tokens ("<script>", "</script>", ...).  A          *)
(* JavaScript value is a record [tag, s]: tag "str" carries the string s,  *)
(* tag "null" is null/undefined, tag "obj" is a truthy non-string value.   *)
(***************************************************************************)
EXTENDS Integers, Sequences, FiniteSets, TLC

----------------------------------------------------------------------------
(* Program constants *)

\* results.slice(0, 10) and results.length > 10
DisplayCap == 10

\* substring(0, 200)
SummaryLimit == 200

(* Bounds of the model *)

\* longest result list handed to formatSearchResultsToMarkdown
MaxResults == 11

\* how far the long texts run past SummaryLimit
MaxOver == 2

\* backend answers other than the nominal markdown, per call of a function
MaxFaults == 1

\* longest ENABLED_TOOLS configuration string, in tokens
MaxCfgLen == 3

\* longest ENABLED_TOOLS configuration list, in entries
MaxArrayLen == 2

\* longest result list the web_search_exa handler receives
MaxSearchResults == 3

----------------------------------------------------------------------------
(* Strings *)

Min(a, b) == IF a < b THEN a ELSE b

Rep(c, n) == [j \in 1..n |-> c]

Str(s) == [tag |-> "str", s |-> s]

Null == [tag |-> "null", s |-> <<>>]

Obj == [tag |-> "obj", s |-> <<>>]

IsString(v) == v.tag = "str"

\* JavaScript truthiness: null and "" are falsy
Truthy(v) == v.tag = "obj" \/ (v.tag = "str" /\ v.s # <<>>)

IsSpace(c) == c \in {" ", "\n"}

\* String.prototype.trim
Trim(s) ==
  LET idx == {j \in 1..Len(s) : ~IsSpace(s[j])}
  IN IF idx = {} THEN <<>>
     ELSE SubSeq(s, CHOOSE j \in idx : \A k \in idx : j <= k,
                    CHOOSE j \in idx : \A k \in idx : j >= k)

\* String.prototype.substring(0, n)
Substring0(s, n) == SubSeq(s, 1, Min(n, Len(s)))

\* the backquote character is written "bq"
IsMarker(c) == c \in {"#", "*", "bq"}

\* .replace(/[#*bq]/g, '')
RemoveMarkers(s) == SelectSeq(s, LAMBDA c : ~IsMarker(c))

\* .replace(/\n+/g, ' '): every maximal run of newlines becomes one space
CollapseNewlines(s) ==
  LET marked == [j \in 1..Len(s) |->
                   IF s[j] # "\n" THEN s[j]
                   ELSE IF j > 1 /\ s[j-1] = "\n" THEN "drop" ELSE " "]
  IN SelectSeq(marked, LAMBDA c : c # "drop")

Ellipsis == <<".", ".", ".">>

----------------------------------------------------------------------------
(* Summary extraction, markdown.ts 135-145 *)

\* cleanText.replace(/[#*bq]/g, '').replace(/\n+/g, ' ').trim()
Stripped(s) == Trim(CollapseNewlines(RemoveMarkers(s)))

\* variant: the slice is one character too long
SummaryOffByOne(s) == Trim(Substring0(Stripped(s), SummaryLimit + 1))

\* ... .substring(0, 200).trim()
Summary(s) == Trim(Substring0(Stripped(s), SummaryLimit))

\* variant: the comparison is not strict
DisplaySummaryNotStrict(s) ==
  IF Len(Summary(s)) <= Len(Stripped(s)) THEN Summary(s) \o Ellipsis
  ELSE Summary(s)

\* summary.length < stripped.length ? summary + '...' : summary
DisplaySummary(s) ==
  IF Len(Summary(s)) < Len(Stripped(s)) THEN Summary(s) \o Ellipsis
  ELSE Summary(s)

----------------------------------------------------------------------------
(* cleanHtmlContent, markdown.ts 27-59.  A tag the patterns look for is    *)
(* one token; every pattern is  open-tag [\s\S]*? close-tag  (non-greedy,  *)
(* global) or a single img tag.                                            *)

RECURSIVE RemoveBlocks(_, _, _)
\* html.replace(/<open[^>]*>[\s\S]*?<\/close>/gi, '')
RemoveBlocks(s, open, close) ==
  LET os == {j \in 1..Len(s) :
               s[j] = open /\ \E k \in (j+1)..Len(s) : s[k] = close}
  IN IF os = {} THEN s
     ELSE LET j == CHOOSE x \in os : \A y \in os : x <= y
              ks == {k \in (j+1)..Len(s) : s[k] = close}
              k == CHOOSE x \in ks : \A y \in ks : x <= y
          IN SubSeq(s, 1, j-1) \o
             RemoveBlocks(SubSeq(s, k+1, Len(s)), open, close)

\* html.replace(/<img[^>]*alt="[^"]*logo[^"]*"[^>]*>/gi, '')
RemoveTags(s, tag) == SelectSeq(s, LAMBDA c : c # tag)

\* html.replace(/\s+/g, ' ')
CollapseWhitespace(s) ==
  LET marked == [j \in 1..Len(s) |->
                   IF ~IsSpace(s[j]) THEN s[j]
                   ELSE IF j > 1 /\ IsSpace(s[j-1]) THEN "drop" ELSE " "]
  IN SelectSeq(marked, LAMBDA c : c # "drop")

RECURSIVE CollapseBlankLines(_)
\* html.replace(/\n\s*\n/g, '\n')
CollapseBlankLines(s) ==
  LET starts == {j \in 1..Len(s) :
                   /\ s[j] = "\n"
                   /\ \E k \in (j+1)..Len(s) :
                        s[k] = "\n" /\ \A m \in j..k : IsSpace(s[m])}
  IN IF starts = {} THEN s
     ELSE LET j == CHOOSE x \in starts : \A y \in starts : x <= y
              ks == {k \in (j+1)..Len(s) :
                       s[k] = "\n" /\ \A m \in j..k : IsSpace(s[m])}
              k == CHOOSE x \in ks : \A y \in ks : x >= y
          IN SubSeq(s, 1, j-1) \o <<"\n">> \o
             CollapseBlankLines(SubSeq(s, k+1, Len(s)))

cleanHtmlContent(html) ==
  IF html = <<>> THEN html
  ELSE
    LET h1 == RemoveBlocks(html, "<script>", "</script>")
        h2 == RemoveBlocks(h1, "<style>", "</style>")
        h3 == RemoveBlocks(h2, "<nav>", "</nav>")
        h4 == RemoveBlocks(h3, "<header>", "</header>")
        h5 == RemoveBlocks(h4, "<footer>", "</footer>")
        h6 == RemoveBlocks(h5, "<div class=ad>", "</div>")
        h7 == RemoveBlocks(h6, "<div id=ad>", "</div>")
        h8 == RemoveBlocks(h7, "<aside>", "</aside>")
        h9 == RemoveBlocks(h8, "<div class=share>", "</div>")
        h10 == RemoveBlocks(h9, "<div class=social>", "</div>")
        h11 == RemoveTags(h10, "<img alt=logo>")
        h12 == RemoveTags(h11, "<img class=icon>")
        h13 == CollapseWhitespace(h12)
        h14 == CollapseBlankLines(h13)
    IN Trim(h14)

----------------------------------------------------------------------------
(* convertToMarkdown, markdown.ts 68-109 *)

\* variant: the binding is not looked at
ReturnsWithoutCallIgnoringEnv(content, e) ==
  \/ ~Truthy(content)
  \/ Trim(content.s) = <<>>

\* if (!content || content.trim() === '') return content;
\* if (!env?.AI) return content;
ReturnsWithoutCall(content, e) ==
  \/ ~Truthy(content)
  \/ Trim(content.s) = <<>>
  \/ e = "absent"

\* variant: the cleaner is skipped
BlobForRaw(content, mimeType) ==
  [name |-> "content", body |-> content.s, type |-> mimeType]

\* processedContent and the blob handed to env.AI.toMarkdown
BlobFor(content, mimeType) ==
  [name |-> "content",
   body |-> IF mimeType = "text/html" THEN cleanHtmlContent(content.s)
            ELSE content.s,
   type |-> mimeType]

NoBlob == [name |-> "none", body |-> <<>>, type |-> "none"]

NoResp == [kind |-> "none", recs |-> <<>>]

\* variant: the data of the first record is not looked at
AcceptedAnyData(resp) ==
  /\ resp.kind = "list"
  /\ Len(resp.recs) > 0
  /\ resp.recs[1].format = "markdown"

\* markdownResult && markdownResult.length > 0 &&
\* conversion.format === 'markdown' && conversion.data
Accepted(resp) ==
  /\ resp.kind = "list"
  /\ Len(resp.recs) > 0
  /\ resp.recs[1].format = "markdown"
  /\ Truthy(resp.recs[1].data)

\* the value convertToMarkdown returns once the backend has answered
\* (a throwing call lands in the catch block, which returns content)
ConvertResult(content, resp) ==
  IF Accepted(resp) THEN resp.recs[1].data ELSE content

(* The answers of env.AI.toMarkdown *)

\* markdown the backend hands back
NominalMd == <<"#", " ", "a", "\n", "\n", "*", "b", "*">>

MdPool ==
  { NominalMd,
    <<" ", "\n">>,
    <<"#">> \o Rep("m", SummaryLimit + 1) }

MarkdownResp(d) ==
  [kind |-> "list", recs |-> <<[format |-> "markdown", data |-> d]>>]

Nominal == MarkdownResp(Str(NominalMd))

BackendResponses ==
  { [kind |-> "throws", recs |-> <<>>],
    [kind |-> "null", recs |-> <<>>],
    [kind |-> "list", recs |-> <<>>],
    [kind |-> "list", recs |-> <<[format |-> "text", data |-> Str(NominalMd)]>>],
    [kind |-> "list", recs |-> <<[format |-> "text", data |-> Str(NominalMd)],
                                 [format |-> "markdown", data |-> Str(NominalMd)]>>],
    MarkdownResp(Str(<<>>)),
    MarkdownResp(Null),
    MarkdownResp(Obj) }
  \cup { MarkdownResp(Str(d)) : d \in MdPool }

----------------------------------------------------------------------------
(* Inputs *)

\* texts whose stripped length lies around SummaryLimit
FineTexts ==
  { pre \o Rep("a", k1) \o mid \o Rep("a", k2) \o suf :
      pre \in {<<>>, <<"#", " ">>},
      k1 \in {SummaryLimit - 1, SummaryLimit},
      mid \in {<<>>, <<" ">>, <<"\n", "\n">>, <<"*">>},
      k2 \in 0..MaxOver,
      suf \in {<<>>, <<" ">>, <<"\n">>} }

HtmlTexts ==
  { <<"<script>", "x", "</script>", "a", " ", " ", "b">>,
    <<"<nav>", "x", "</nav>", "<p>", "a", "</p>", "\n", "\n", "<img alt=logo>">>,
    <<"<div class=ad>", "x", "</div>", "a", "</div>">>,
    <<" ", "a", "\n">> }

ShortTexts == { <<>>, <<" ">>, <<"a">>, <<"#", "a", "\n", "b">> } \cup HtmlTexts

\* the text of the k-th item of a result list
BaseText(k) ==
  IF k % 3 = 0 THEN <<"<script>", "x", "</script>", "c">>
  ELSE IF k % 3 = 1 THEN <<"#", "a", "\n", "b">>
  ELSE <<"a", " ", "b">>

\* ExaSearchResult: title and url are determined by id
Item(k) ==
  [id |-> k, text |-> Str(BaseText(k)),
   author |-> (k % 2 = 0), publishedDate |-> (k % 3 # 2)]

BaseList(n) == [k \in 1..n |-> Item(k)]

WithText(l, p, t) == [l EXCEPT ![p].text = t]

ResultLists ==
  { BaseList(n) : n \in 0..MaxResults }
  \cup UNION { { WithText(BaseList(n), p, Null) : p \in 1..n } : n \in 1..MaxResults }
  \cup { WithText(BaseList(1), 1, Str(t)) : t \in FineTexts \cup ShortTexts }

QueryPool == { <<"f", "o", "o">>, <<>> }

Envs == {"absent", "present"}

----------------------------------------------------------------------------
(* State *)

VARIABLES
  op,        \* the function executing: "none", "format", "convert", "crawl", "fetch"
  pc,        \* "idle", "loop", "await", "done", "threw"
  results,   \* format: [present, items], the results argument
  query,     \* format: the query argument
  env,       \* "present" when env.AI is bound, else "absent"
  content,   \* convert / crawl: the content (crawledText) being converted
  mime,      \* convert: the mimeType argument
  i,         \* format: index of the item of results.slice(0, 10) in progress
  markdown,  \* format: the document built so far, a sequence of lines
  blob,      \* the blob of the outstanding env.AI.toMarkdown call
  aiCalls,   \* number of env.AI.toMarkdown calls made by the running function
  faults,    \* number of backend answers other than Nominal so far
  ret,       \* what the function returned: [kind, val]
  log,       \* format, history: per finished item, [id, clean, path]
  answer,    \* convert / crawl, history: what env.AI.toMarkdown answered
  toolsParam,       \* fetch: serverConfig.enabledTools (env.ENABLED_TOOLS)
  enabledTools,     \* fetch: normalizedConfig.enabledTools, [present, list]
  registeredTools,  \* fetch: the ids registered, in registration order
  handler,   \* the tool handler running: "none", "web_search_exa", "crawling_exa"
  upKind     \* tool handlers, history: what the content-fetch dependency did

vars == <<op, pc, results, query, env, content, mime, i, markdown, blob,
          aiCalls, faults, ret, log, answer, toolsParam, enabledTools, registeredTools,
          handler, upKind>>

cfgVars == <<toolsParam, enabledTools, registeredTools>>

toolVars == <<handler, upKind>>

fmtVars == <<results, query, i, markdown, log>>

NoRet == [kind |-> "none", val |-> <<>>]

NoResults == [present |-> FALSE, items |-> <<>>]

AbsentParam == [form |-> "absent", toks |-> <<>>, entries |-> <<>>]

NoList == [present |-> FALSE, list |-> <<>>]

Line(kind, ref, body) == [kind |-> kind, ref |-> ref, body |-> body]

----------------------------------------------------------------------------
(* formatSearchResultsToMarkdown, markdown.ts 118-170 *)

\* variant: the slice is not taken
SliceNoCap(items) == items

\* results.slice(0, 10)
Slice(items) == SubSeq(items, 1, Min(DisplayCap, Len(items)))

\* lines 147-155
NormalLines(item, cleanText) ==
  <<Line("title", item.id, <<>>)>>
  \o (IF item.author THEN <<Line("author", item.id, <<>>)>> ELSE <<>>)
  \o (IF item.publishedDate THEN <<Line("published", item.id, <<>>)>> ELSE <<>>)
  \o <<Line("summary", item.id, DisplaySummary(cleanText))>>

\* lines 160-161
FallbackLines(item) ==
  <<Line("title", item.id, <<>>),
    Line("fallback", item.id, Substring0(item.text.s, SummaryLimit) \o Ellipsis)>>

\* cleanText.replace(...) raises unless cleanText is a string
SummaryRaises(cleanText) == ~IsString(cleanText)

\* result.text.substring(...) in the catch block raises unless text is a string
FallbackRaises(item) == ~IsString(item.text)

\* lines 165-167
Footer(items) ==
  IF Len(items) > DisplayCap
  THEN <<Line("footer", Len(items) - DisplayCap, <<>>)>>
  ELSE <<>>

\* variant: new lines are put in front of the document
PrependSection(md, lines) == lines \o md

\* markdown += ...
AppendSection(md, lines) == md \o lines

\* variant: the message does not carry the query
NoResultsDocNoQuery(q) == <<Line("noresults", 0, <<>>)>>

\* line 124
NoResultsDoc(q) == <<Line("noresults", 0, q)>>

\* line 127
Header(q) == <<Line("header", 0, q)>>

\* variant: a second env.AI.toMarkdown call after the first attempt
InvokedTwice(n) == n + 2

\* the number of env.AI.toMarkdown calls after the one call of lines 88-93
\* (crawling.ts 107-112), n calls having been made before
Invoked(n) == n + 1

\* variant: when the catch block raises, what was built so far is returned
FinishItemReturnsPartial(item, cleanText) ==
  IF ~SummaryRaises(cleanText)
  THEN /\ markdown' = AppendSection(markdown, NormalLines(item, cleanText.s))
       /\ log' = Append(log, [id |-> item.id, clean |-> cleanText,
                              path |-> "normal"])
       /\ i' = i + 1
       /\ pc' = "loop"
       /\ ret' = ret
  ELSE IF ~FallbackRaises(item)
  THEN /\ markdown' = AppendSection(markdown, FallbackLines(item))
       /\ log' = Append(log, [id |-> item.id, clean |-> cleanText,
                              path |-> "fallback"])
       /\ i' = i + 1
       /\ pc' = "loop"
       /\ ret' = ret
  ELSE /\ pc' = "done"
       /\ ret' = [kind |-> "doc", val |-> markdown]
       /\ log' = Append(log, [id |-> item.id, clean |-> cleanText,
                              path |-> "raised"])
       /\ UNCHANGED <<markdown, i>>

\* one pass through the loop body from the point cleanText is known
FinishItem(item, cleanText) ==
  IF ~SummaryRaises(cleanText)
  THEN /\ markdown' = AppendSection(markdown, NormalLines(item, cleanText.s))
       /\ log' = Append(log, [id |-> item.id, clean |-> cleanText,
                              path |-> "normal"])
       /\ i' = i + 1
       /\ pc' = "loop"
       /\ ret' = ret
  ELSE IF ~FallbackRaises(item)
  THEN /\ markdown' = AppendSection(markdown, FallbackLines(item))
       /\ log' = Append(log, [id |-> item.id, clean |-> cleanText,
                              path |-> "fallback"])
       /\ i' = i + 1
       /\ pc' = "loop"
       /\ ret' = ret
  ELSE /\ pc' = "threw"
       /\ ret' = [kind |-> "throw", val |-> <<>>]
       /\ log' = Append(log, [id |-> item.id, clean |-> cleanText,
                              path |-> "raised"])
       /\ UNCHANGED <<markdown, i>>

\* lines 118-127
CallFormat(rs, q, e) ==
  /\ pc = "idle"
  /\ op' = "format"
  /\ results' = rs
  /\ query' = q
  /\ env' = e
  /\ aiCalls' = 0
  /\ faults' = 0
  /\ log' = <<>>
  /\ blob' = NoBlob
  /\ IF ~rs.present \/ Len(rs.items) = 0
     THEN /\ pc' = "done"
          /\ ret' = [kind |-> "doc", val |-> NoResultsDoc(q)]
          /\ markdown' = <<>>
          /\ i' = 0
     ELSE /\ pc' = "loop"
          /\ ret' = NoRet
          /\ markdown' = Header(q)
          /\ i' = 1
  /\ UNCHANGED <<content, mime, answer>>
  /\ UNCHANGED cfgVars
  /\ UNCHANGED toolVars

\* lines 129-132 up to the await, or the whole body when no call is made;
\* lines 165-169 once the slice is exhausted
FormatStep ==
  /\ op = "format" /\ pc = "loop"
  /\ IF i > Len(Slice(results.items))
     THEN /\ pc' = "done"
          /\ markdown' = AppendSection(markdown, Footer(results.items))
          /\ ret' = [kind |-> "doc", val |-> markdown']
          /\ UNCHANGED <<i, blob, aiCalls, log>>
     ELSE LET item == results.items[i] IN
          IF ReturnsWithoutCall(item.text, env)
          THEN /\ FinishItem(item, item.text)
               /\ UNCHANGED <<blob, aiCalls>>
          ELSE /\ pc' = "await"
               /\ blob' = BlobFor(item.text, "text/html")
               /\ aiCalls' = Invoked(aiCalls)
               /\ UNCHANGED <<i, markdown, ret, log>>
  /\ UNCHANGED <<op, results, query, env, content, mime, faults, answer>>
  /\ UNCHANGED cfgVars
  /\ UNCHANGED toolVars

\* the backend answers: lines 95-108, then lines 135-162
FormatResume(resp) ==
  /\ op = "format" /\ pc = "await"
  /\ resp # Nominal => faults < MaxFaults
  /\ faults' = IF resp = Nominal THEN faults ELSE faults + 1
  /\ blob' = NoBlob
  /\ FinishItem(results.items[i], ConvertResult(results.items[i].text, resp))
  /\ UNCHANGED <<op, results, query, env, content, mime, aiCalls, answer>>
  /\ UNCHANGED cfgVars
  /\ UNCHANGED toolVars

----------------------------------------------------------------------------
(* convertToMarkdown and convertJsonToMarkdown called on their own *)

ContentPool == {Null} \cup { Str(t) : t \in ShortTexts }

MimeTypes == {"text/html", "text/plain"}

\* typeof data === 'string' ? data : JSON.stringify(data, null, 2)
JsonString(data) ==
  IF IsString(data) THEN data
  ELSE IF data = Null THEN Str(<<"n", "u", "l", "l">>)
  ELSE Str(<<"{", "}">>)

\* markdown.ts 68-93
CallConvert(c, e, m) ==
  /\ pc = "idle"
  /\ op' = "convert"
  /\ content' = c
  /\ env' = e
  /\ mime' = m
  /\ faults' = 0
  /\ answer' = NoResp
  /\ IF ReturnsWithoutCall(c, e)
     THEN /\ pc' = "done"
          /\ ret' = [kind |-> "value", val |-> c]
          /\ blob' = NoBlob
          /\ aiCalls' = 0
     ELSE /\ pc' = "await"
          /\ ret' = NoRet
          /\ blob' = BlobFor(c, m)
          /\ aiCalls' = Invoked(0)
  /\ UNCHANGED fmtVars
  /\ UNCHANGED cfgVars
  /\ UNCHANGED toolVars

\* markdown.ts 178-187
CallConvertJson(data, e) == CallConvert(JsonString(data), e, "text/plain")

\* markdown.ts 95-108
ConvertResume(resp) ==
  /\ op = "convert" /\ pc = "await"
  /\ pc' = "done"
  /\ ret' = [kind |-> "value", val |-> ConvertResult(content, resp)]
  /\ answer' = resp
  /\ blob' = NoBlob
  /\ faults' = IF resp = Nominal THEN faults ELSE faults + 1
  /\ UNCHANGED <<op, env, content, mime, aiCalls>>
  /\ UNCHANGED fmtVars
  /\ UNCHANGED cfgVars
  /\ UNCHANGED toolVars

----------------------------------------------------------------------------
(* The crawling_exa tool handler, crawling.ts 20-183 *)

ToolResult(msg, text, isError) ==
  [kind |-> "tool", val |-> [msg |-> msg, text |-> text, isError |-> isError]]

\* what axiosInstance.post('/contents', ...) yields
Upstreams ==
  { [kind |-> "axiosError", text |-> Null],
    [kind |-> "error", text |-> Null],
    [kind |-> "noData", text |-> Null],
    [kind |-> "emptyResults", text |-> Null],
    [kind |-> "results", text |-> Obj] }
  \cup { [kind |-> "results", text |-> c] : c \in ContentPool }

\* crawledResult?.text || ''
CrawledText(up) == IF Truthy(up.text) THEN up.text ELSE Str(<<>>)

\* the upstream outcome as the error taxonomy sees it: a body whose text is
\* not a string is malformed
CrawlUpKind(up) ==
  IF up.kind = "results" /\ ~IsString(CrawledText(up)) THEN "malformed"
  ELSE up.kind

\* crawling.ts 26-112 and the catch block 156-182
CrawlBody(up, e) ==
  /\ op' = "crawl"
  /\ handler' = "crawling_exa"
  /\ upKind' = CrawlUpKind(up)
  /\ env' = e
  /\ mime' = "text/html"
  /\ faults' = 0
  /\ answer' = NoResp
  /\ content' = IF up.kind = "results" THEN CrawledText(up) ELSE Null
  /\ IF up.kind \in {"axiosError", "error"}
     THEN /\ pc' = "done"
          /\ ret' = ToolResult("crawling_error", Null, TRUE)
          /\ blob' = NoBlob /\ aiCalls' = 0
     ELSE IF up.kind \in {"noData", "emptyResults"}
     THEN /\ pc' = "done"
          /\ ret' = ToolResult("no_content", Null, FALSE)
          /\ blob' = NoBlob /\ aiCalls' = 0
     ELSE IF ~IsString(CrawledText(up))
     THEN \* crawledText.trim is not a function: the outer catch block
          /\ pc' = "done"
          /\ ret' = ToolResult("crawling_error", Null, TRUE)
          /\ blob' = NoBlob /\ aiCalls' = 0
     ELSE IF Trim(CrawledText(up).s) = <<>>
     THEN /\ pc' = "done"
          /\ ret' = ToolResult("raw_json", Null, FALSE)
          /\ blob' = NoBlob /\ aiCalls' = 0
     ELSE IF e = "absent"
     THEN /\ pc' = "done"
          /\ ret' = ToolResult("text", CrawledText(up), FALSE)
          /\ blob' = NoBlob /\ aiCalls' = 0
     ELSE /\ pc' = "await"
          /\ ret' = NoRet
          /\ blob' = [name |-> "url", body |-> CrawledText(up).s,
                      type |-> "text/html"]
          /\ aiCalls' = Invoked(0)
  /\ UNCHANGED fmtVars
  /\ UNCHANGED cfgVars

\* the handler registered by registerCrawlingTool(server, config, env) is called
CallCrawl(up, e) ==
  /\ pc = "idle"
  /\ CrawlBody(up, e)

\* variant: the format tag of the first record is not looked at
CrawlConversionAnyFormat(crawledText, resp) ==
  IF /\ resp.kind = "list"
     /\ Len(resp.recs) > 0
     /\ Truthy(resp.recs[1].data)
  THEN resp.recs[1].data
  ELSE crawledText

\* crawling.ts 114-153: the converted data when the answer has the expected
\* shape, crawledText otherwise and when the call raised
CrawlConversion(crawledText, resp) ==
  IF /\ resp.kind = "list"
     /\ Len(resp.recs) > 0
     /\ resp.recs[1].format = "markdown"
     /\ Truthy(resp.recs[1].data)
  THEN resp.recs[1].data
  ELSE crawledText

\* crawling.ts 114-154
CrawlResume(resp) ==
  /\ op = "crawl" /\ pc = "await"
  /\ pc' = "done"
  /\ ret' = ToolResult("text", CrawlConversion(content, resp), FALSE)
  /\ answer' = resp
  /\ blob' = NoBlob
  /\ faults' = IF resp = Nominal THEN faults ELSE faults + 1
  /\ UNCHANGED <<op, env, content, mime, aiCalls>>
  /\ UNCHANGED fmtVars
  /\ UNCHANGED cfgVars
  /\ UNCHANGED toolVars

----------------------------------------------------------------------------
(* The web_search_exa tool handler, registerWebSearchTool (part_000 30-131) *)

\* what axiosInstance.post(API_CONFIG.ENDPOINTS.SEARCH, ...) yields
SearchLists ==
  { BaseList(n) : n \in 1..MaxSearchResults }
  \cup UNION { { WithText(BaseList(n), p, Null) : p \in 1..n } : n \in 1..MaxSearchResults }
  \cup { WithText(BaseList(2), 2, Str(t)) : t \in HtmlTexts }

SearchUpstreams ==
  { [kind |-> k, items |-> <<>>] :
      k \in {"axiosError", "error", "noData", "emptyResults", "malformed"} }
  \cup { [kind |-> "results", items |-> l] : l \in SearchLists }

\* part_000 36-92 and the catch block 104-130, up to the first await inside
\* formatSearchResultsToMarkdown.  A results value that is not a list
\* ("malformed") passes the length tests and raises at results.slice.
SearchBody(up, q, e) ==
  /\ handler' = "web_search_exa"
  /\ upKind' = up.kind
  /\ query' = q
  /\ env' = e
  /\ aiCalls' = 0
  /\ faults' = 0
  /\ log' = <<>>
  /\ blob' = NoBlob
  /\ IF up.kind \in {"axiosError", "error", "malformed"}
     THEN /\ op' = "search" /\ pc' = "done"
          /\ ret' = ToolResult("search_error", Null, TRUE)
          /\ results' = NoResults /\ markdown' = <<>> /\ i' = 0
     ELSE IF up.kind \in {"noData", "emptyResults"}
     THEN /\ op' = "search" /\ pc' = "done"
          /\ ret' = ToolResult("no_results", Null, FALSE)
          /\ results' = NoResults /\ markdown' = <<>> /\ i' = 0
     ELSE /\ op' = "format" /\ pc' = "loop"
          /\ ret' = NoRet
          /\ results' = [present |-> TRUE, items |-> up.items]
          /\ markdown' = Header(q)
          /\ i' = 1
  /\ UNCHANGED <<content, mime, answer>>
  /\ UNCHANGED cfgVars

\* the handler registered by registerWebSearchTool(server, config, env) is called
CallSearch(up, q, e) ==
  /\ pc = "idle"
  /\ SearchBody(up, q, e)

\* part_000 94-103 when formatSearchResultsToMarkdown returned, the catch
\* block 104-130 when it raised
SearchFinish ==
  /\ op = "format" /\ handler = "web_search_exa"
  /\ pc \in {"done", "threw"}
  /\ op' = "search"
  /\ pc' = "done"
  /\ ret' = IF ret.kind = "doc"
            THEN ToolResult("document", ret.val, FALSE)
            ELSE ToolResult("search_error", Null, TRUE)
  /\ UNCHANGED <<env, content, mime, blob, aiCalls, faults, answer>>
  /\ UNCHANGED fmtVars
  /\ UNCHANGED cfgVars
  /\ UNCHANGED toolVars

----------------------------------------------------------------------------
(* Tool activation, worker.ts 17-145.  A configuration string is a         *)
(* sequence of tokens: a tool id, "," or " ".                              *)

\* availableTools, worker.ts 17-26
availableTools ==
  [ web_search_exa        |-> [enabled |-> TRUE],
    get_code_context_exa  |-> [enabled |-> TRUE],
    deep_search_exa       |-> [enabled |-> FALSE],
    crawling_exa          |-> [enabled |-> FALSE],
    deep_researcher_start |-> [enabled |-> FALSE],
    deep_researcher_check |-> [enabled |-> FALSE],
    linkedin_search_exa   |-> [enabled |-> FALSE],
    company_research_exa  |-> [enabled |-> FALSE] ]

\* the order of the if-statements, worker.ts 107-145
RegistrationOrder ==
  << "web_search_exa", "deep_search_exa", "company_research_exa",
     "crawling_exa", "linkedin_search_exa", "deep_researcher_start",
     "deep_researcher_check", "get_code_context_exa" >>

\* toolsParam.split(',')
Split(toks) ==
  LET commas == SelectSeq([j \in 1..Len(toks) |-> j], LAMBDA j : toks[j] = ",")
      cuts == <<0>> \o commas \o <<Len(toks) + 1>>
  IN [r \in 1..(Len(cuts) - 1) |-> SubSeq(toks, cuts[r] + 1, cuts[r+1] - 1)]

\* worker.ts 69-81
ParseEnabledTools(tp) ==
  IF tp.form = "string" /\ tp.toks # <<>>
  THEN [present |-> TRUE,
        list |-> SelectSeq([r \in 1..Len(Split(tp.toks)) |-> Trim(Split(tp.toks)[r])],
                           LAMBDA t : Len(t) > 0)]
  ELSE IF tp.form = "array"
  THEN [present |-> TRUE, list |-> tp.entries]
  ELSE NoList

\* enabledTools.includes(toolId)
Includes(list, toolId) == \E k \in 1..Len(list) : list[k] = <<toolId>>

\* variant: the catalog default is honoured next to the list
shouldRegisterToolOrDefault(toolId, et) ==
  \/ et.present /\ Len(et.list) > 0 /\ Includes(et.list, toolId)
  \/ toolId \in DOMAIN availableTools /\ availableTools[toolId].enabled

\* worker.ts 97-102
shouldRegisterTool(toolId, et) ==
  IF et.present /\ Len(et.list) > 0
  THEN Includes(et.list, toolId)
  ELSE IF toolId \in DOMAIN availableTools
       THEN availableTools[toolId].enabled
       ELSE FALSE

ConfigTokens == {"web_search_exa", "crawling_exa", "unknown_tool", ",", " "}

RECURSIVE SeqsUpTo(_, _)
SeqsUpTo(S, n) ==
  IF n = 0 THEN {<<>>}
  ELSE LET shorter == SeqsUpTo(S, n - 1)
       IN shorter \cup { Append(t, x) : t \in shorter, x \in S }

ArrayEntries ==
  { <<"web_search_exa">>, <<"deep_search_exa">>, <<"unknown_tool">>,
    <<>>, <<" ", "crawling_exa">> }

ToolsParams ==
  {AbsentParam}
  \cup { [form |-> "string", toks |-> t, entries |-> <<>>] :
           t \in SeqsUpTo(ConfigTokens, MaxCfgLen) }
  \cup { [form |-> "array", toks |-> <<>>, entries |-> a] :
           a \in SeqsUpTo(ArrayEntries, MaxArrayLen) }

Methods == {"OPTIONS", "GET", "POST"}

\* fetch, worker.ts 30-222
Fetch(method, tp) ==
  /\ pc = "idle"
  /\ op' = "fetch"
  /\ pc' = "done"
  /\ IF method = "OPTIONS"
     THEN /\ ret' = [kind |-> "response", val |-> 200]
          /\ UNCHANGED cfgVars
     ELSE IF method # "POST"
     THEN /\ ret' = [kind |-> "response", val |-> 405]
          /\ UNCHANGED cfgVars
     ELSE /\ toolsParam' = tp
          /\ enabledTools' = ParseEnabledTools(tp)
          /\ registeredTools' =
               SelectSeq(RegistrationOrder,
                         LAMBDA t : shouldRegisterTool(t, enabledTools'))
          /\ ret' = [kind |-> "handler", val |-> 0]
  /\ UNCHANGED <<env, content, mime, blob, aiCalls, faults, answer>>
  /\ UNCHANGED fmtVars
  /\ UNCHANGED toolVars

\* variant: the worker hands its env to the registration
RegisteredEnvPassed == "present"

\* worker.ts 108 and 123: registerWebSearchTool(server, normalizedConfig) and
\* registerCrawlingTool(server, normalizedConfig) leave the env parameter out
RegisteredEnv == "absent"

IsRegistered(toolId) ==
  \E k \in 1..Len(registeredTools) : registeredTools[k] = toolId

\* worker.ts 217: the handler serves the request, here a web_search_exa call
DispatchSearch(up, q) ==
  /\ op = "fetch" /\ pc = "done" /\ ret.kind = "handler"
  /\ IsRegistered("web_search_exa")
  /\ SearchBody(up, q, RegisteredEnv)

\* worker.ts 217: the handler serves the request, here a crawling_exa call
DispatchCrawl(up) ==
  /\ op = "fetch" /\ pc = "done" /\ ret.kind = "handler"
  /\ IsRegistered("crawling_exa")
  /\ CrawlBody(up, RegisteredEnv)

----------------------------------------------------------------------------
\* the caller has taken the result; the next call may start
Return ==
  /\ pc \in {"done", "threw"}
  /\ ~(op = "format" /\ handler = "web_search_exa")
  /\ pc' = "idle"
  /\ op' = "none"
  /\ results' = NoResults
  /\ query' = <<>>
  /\ env' = "absent"
  /\ content' = Null
  /\ mime' = "none"
  /\ i' = 0
  /\ markdown' = <<>>
  /\ blob' = NoBlob
  /\ aiCalls' = 0
  /\ faults' = 0
  /\ ret' = NoRet
  /\ log' = <<>>
  /\ answer' = NoResp
  /\ toolsParam' = AbsentParam
  /\ enabledTools' = NoList
  /\ registeredTools' = <<>>
  /\ handler' = "none"
  /\ upKind' = "none"

Init ==
  /\ op = "none"
  /\ pc = "idle"
  /\ results = NoResults
  /\ query = <<>>
  /\ env = "absent"
  /\ content = Null
  /\ mime = "none"
  /\ i = 0
  /\ markdown = <<>>
  /\ blob = NoBlob
  /\ aiCalls = 0
  /\ faults = 0
  /\ ret = NoRet
  /\ log = <<>>
  /\ answer = NoResp
  /\ toolsParam = AbsentParam
  /\ enabledTools = NoList
  /\ registeredTools = <<>>
  /\ handler = "none"
  /\ upKind = "none"

Next ==
  \/ \E rs \in {NoResults} \cup {[present |-> TRUE, items |-> l] : l \in ResultLists},
        q \in QueryPool, e \in Envs : CallFormat(rs, q, e)
  \/ FormatStep
  \/ \E resp \in BackendResponses : FormatResume(resp)
  \/ \E c \in ContentPool, e \in Envs, m \in MimeTypes : CallConvert(c, e, m)
  \/ \E d \in {Obj, Null} \cup ContentPool, e \in Envs : CallConvertJson(d, e)
  \/ \E resp \in BackendResponses : ConvertResume(resp)
  \/ \E up \in Upstreams, e \in Envs : CallCrawl(up, e)
  \/ \E resp \in BackendResponses : CrawlResume(resp)
  \/ \E up \in SearchUpstreams, q \in QueryPool, e \in Envs : CallSearch(up, q, e)
  \/ SearchFinish
  \/ \E method \in Methods, tp \in ToolsParams : Fetch(method, tp)
  \/ \E up \in SearchUpstreams, q \in QueryPool : DispatchSearch(up, q)
  \/ \E up \in Upstreams : DispatchCrawl(up)
  \/ Return

Spec == Init /\ [][Next]_vars

\* formatSearchResultsToMarkdown alone, on the short result lists
FormatNext ==
  \/ \E l \in SearchLists, q \in QueryPool, e \in Envs :
        CallFormat([present |-> TRUE, items |-> l], q, e)
  \/ FormatStep
  \/ \E resp \in BackendResponses : FormatResume(resp)
  \/ Return

\* the steps the JavaScript event loop itself schedules are taken; nothing in
\* the code bounds the wait for an answer of env.AI.toMarkdown
\* FormatStep changes pc or i whenever its guard holds, so its guard is
\* ENABLED <<FormatStep>>_vars and LoopFair is WF_vars(FormatStep)
LoopFair ==
  \/ []<>(~(op = "format" /\ pc = "loop"))
  \/ []<><<FormatStep>>_vars

FairSpec ==
  /\ Init /\ [][FormatNext]_vars
  /\ LoopFair
  /\ WF_vars(Return)

----------------------------------------------------------------------------
(* Properties *)

Range(f) == { f[k] : k \in DOMAIN f }

\* the item sections of a document: the refs of its title lines, in order
TitleRefs(doc) ==
  LET titles == SelectSeq(doc, LAMBDA l : l.kind = "title")
  IN [k \in 1..Len(titles) |-> titles[k].ref]

FooterLines(doc) == SelectSeq(doc, LAMBDA l : l.kind = "footer")

\* the body of the summary line of the item with the given id
SummaryBody(doc, id) ==
  LET ls == SelectSeq(doc, LAMBDA l : l.kind = "summary" /\ l.ref = id)
  IN ls[1].body

HasEllipsis(body) ==
  Len(body) >= 3 /\ SubSeq(body, Len(body) - 2, Len(body)) = Ellipsis

Formatting == op = "format"

Returned == op = "format" /\ pc = "done" /\ ret.kind = "doc"

\* C1: an item whose text is null (or that otherwise makes the conversion or
\* the summary raise) is rendered by the fallback branch and the function
\* still returns a document: it never ends by raising, and every finished
\* item whose summary raised has a fallback line in the document.
C1_PerItemIsolation ==
  Formatting =>
    /\ pc # "threw"
    /\ \A k \in 1..Len(log) :
         SummaryRaises(log[k].clean) =>
           /\ log[k].path = "fallback"
           /\ \E j \in 1..Len(markdown) :
                markdown[j].kind = "fallback" /\ markdown[j].ref = log[k].id

\* C2: the returned document has exactly min(n, 10) item sections; for
\* n > 10 it ends with one footer that states n - 10, for n <= 10 it has
\* no footer.
C2_CapAndFooter ==
  Returned =>
    LET n == Len(results.items)
        doc == ret.val
    IN /\ Len(TitleRefs(doc)) = Min(n, DisplayCap)
       /\ n > DisplayCap =>
            /\ Len(FooterLines(doc)) = 1
            /\ doc[Len(doc)].kind = "footer"
            /\ doc[Len(doc)].ref = n - DisplayCap
       /\ n <= DisplayCap => Len(FooterLines(doc)) = 0

C2_Witness ==
  /\ Returned
  /\ Len(results.items) > DisplayCap
  /\ env = "present"
  /\ faults > 0

\* C3: at every moment the item sections of the document are the items
\* 1..k of the input in input order (k the number of finished items), every
\* line of section k carries item k, and the returned document has the
\* sections of items 1..min(n, 10).
C3_InputOrder ==
  (Formatting /\ pc \in {"loop", "await", "done"} /\ Len(results.items) > 0) =>
    /\ TitleRefs(markdown) = [k \in 1..Len(log) |-> results.items[k].id]
    /\ \A j \in 1..Len(markdown) :
         markdown[j].kind \in {"title", "author", "published", "summary", "fallback"}
           => markdown[j].ref =
                results.items[Len(TitleRefs(SubSeq(markdown, 1, j)))].id
    /\ pc = "done" =>
         TitleRefs(ret.val) =
           [k \in 1..Min(Len(results.items), DisplayCap) |-> results.items[k].id]

C3_Witness ==
  /\ Returned
  /\ Len(results.items) >= 3
  /\ env = "present"
  /\ \E k \in 1..Len(log) : log[k].path = "fallback"

\* C4: with an empty or absent result list the function returns at once a
\* single "no results" line that carries the query, with no header, section
\* or footer, and the backend is not called.
C4_EmptyList ==
  (Formatting /\ Len(results.items) = 0) =>
    /\ pc = "done"
    /\ ret.kind = "doc"
    /\ Len(ret.val) = 1
    /\ ret.val[1].kind = "noresults"
    /\ ret.val[1].body = query
    /\ aiCalls = 0
    /\ blob = NoBlob

C4_Witness ==
  /\ Returned
  /\ results.present
  /\ Len(results.items) = 0
  /\ query = <<"f", "o", "o">>
  /\ env = "present"

\* the backend behaviours C5 lists: absent, throwing, nothing, an empty list,
\* a wrong format tag, empty data, valid markdown
ListedResponse(resp) ==
  \/ resp.recs = <<>>
  \/ IsString(resp.recs[1].data)
  \/ resp.recs[1].data = Null

\* C5: for a non-empty input text and every listed backend behaviour,
\* convertToMarkdown returns a non-empty string.
C5_NonEmptyResult ==
  (op = "convert" /\ pc = "done" /\ IsString(content) /\ content.s # <<>>
     /\ ListedResponse(answer))
    => (ret.kind = "value" /\ IsString(ret.val) /\ ret.val.s # <<>>)

C5_Witness ==
  /\ op = "convert" /\ pc = "done"
  /\ aiCalls = 1
  /\ answer = MarkdownResp(Str(<<>>))
  /\ ret.val = content

\* C6: without a backend (env.AI absent) no backend call is ever made or
\* outstanding, convertToMarkdown returns its input as it is, and the
\* crawling handler returns the raw crawled text.
C6_NoBackendNoCall ==
  (env = "absent" /\ op \in {"convert", "format", "crawl"}) =>
    /\ aiCalls = 0
    /\ pc # "await"
    /\ blob = NoBlob
    /\ (op = "convert" /\ pc = "done") => (ret.kind = "value" /\ ret.val = content)
    /\ (op = "crawl" /\ pc = "done" /\ IsString(content) /\ Trim(content.s) # <<>>)
         => ret.val = [msg |-> "text", text |-> content, isError |-> FALSE]
    /\ op = "format" =>
         \A k \in 1..Len(log) : log[k].clean = results.items[k].text

C6_Witness ==
  /\ op = "convert" /\ pc = "done"
  /\ env = "absent"
  /\ mime = "text/html"
  /\ IsString(content)
  /\ cleanHtmlContent(content.s) # content.s
  /\ ret.val = content

\* the answers that are not a non-empty list whose first record has the
\* format tag "markdown" and non-empty data
RejectedResponses ==
  { [kind |-> "throws", recs |-> <<>>],
    [kind |-> "null", recs |-> <<>>],
    [kind |-> "list", recs |-> <<>>],
    [kind |-> "list", recs |-> <<[format |-> "text", data |-> Str(NominalMd)]>>],
    [kind |-> "list", recs |-> <<[format |-> "text", data |-> Str(NominalMd)],
                                 [format |-> "markdown", data |-> Str(NominalMd)]>>],
    MarkdownResp(Str(<<>>)),
    MarkdownResp(Null) }

\* the text a finished convertToMarkdown or crawl call hands back
Converted == IF op = "crawl" THEN ret.val.text ELSE ret.val

\* C7: a call whose backend raised or answered nothing, an empty list,
\* another format tag or empty data returns the fallback text; a call
\* returns something else only for a non-empty list whose first record has
\* the format tag "markdown" and non-empty data; and neither
\* convertToMarkdown nor the crawling handler raises.
C7_AcceptOnlyMarkdown ==
  /\ (op \in {"convert", "crawl"} /\ pc = "done" /\ aiCalls = 1) =>
       /\ answer \in RejectedResponses => Converted = content
       /\ Converted # content =>
            /\ answer.kind = "list"
            /\ answer.recs # <<>>
            /\ answer.recs[1].format = "markdown"
            /\ answer.recs[1].data \notin {Null, Str(<<>>)}
            /\ Converted = answer.recs[1].data
       /\ op = "convert" => ret.kind = "value"
       /\ op = "crawl" => (ret.kind = "tool" /\ ret.val.msg = "text" /\ ~ret.val.isError)
  /\ op \in {"convert", "crawl"} => pc # "threw"

C7_Witness ==
  /\ op = "crawl" /\ pc = "done"
  /\ aiCalls = 1
  /\ answer.kind = "list"
  /\ answer.recs # <<>>
  /\ answer.recs[1].format = "text"
  /\ ret.val.text = content

\* C8: the summary of an item rendered on the normal path carries the
\* ellipsis exactly when the stripped, collapsed and trimmed text is longer
\* than 200 characters; at 200 or less the summary is that stripped text.
C8_EllipsisIffLonger ==
  Formatting =>
    \A k \in 1..Len(log) :
      log[k].path = "normal" =>
        LET body == SummaryBody(markdown, log[k].id)
            stripped == Trim(CollapseNewlines(RemoveMarkers(log[k].clean.s)))
        IN /\ HasEllipsis(body) <=> Len(stripped) > SummaryLimit
           /\ Len(stripped) <= SummaryLimit => body = stripped

C8_Witness ==
  /\ Returned
  /\ \E k \in 1..Len(log) :
       /\ log[k].path = "normal"
       /\ Len(log[k].clean.s) > SummaryLimit
       /\ Len(Trim(CollapseNewlines(RemoveMarkers(log[k].clean.s)))) = SummaryLimit
       /\ ~HasEllipsis(SummaryBody(markdown, log[k].id))

\* C9: the summary of an item rendered on the normal path is at most
\* 200 + 3 characters long.
C9_SummaryLength ==
  \A j \in 1..Len(markdown) :
    markdown[j].kind = "summary" => Len(markdown[j].body) <= SummaryLimit + 3

C9_Witness ==
  /\ Returned
  /\ \E j \in 1..Len(markdown) :
       markdown[j].kind = "summary" /\ Len(markdown[j].body) = SummaryLimit + 3

\* C10: with a non-empty enabled-tools list a catalog tool is registered
\* exactly when its id is in the list, whatever its enabled-by-default flag,
\* and nothing outside the catalog is registered.
C10_ExplicitList ==
  (op = "fetch" /\ ret.kind = "handler" /\ enabledTools.present
     /\ Len(enabledTools.list) > 0) =>
    /\ \A t \in DOMAIN availableTools :
         t \in Range(registeredTools) <=> <<t>> \in Range(enabledTools.list)
    /\ Range(registeredTools) \subseteq DOMAIN availableTools

C10_Witness ==
  /\ op = "fetch" /\ ret.kind = "handler"
  /\ toolsParam.form = "string"
  /\ enabledTools.list = << <<"crawling_exa">>, <<"unknown_tool">> >>
  /\ registeredTools = <<"crawling_exa">>

\* the catalog entries whose enabled-by-default flag is set
DefaultEnabled == { t \in DOMAIN availableTools : availableTools[t].enabled }

\* the configuration is absent, or empty once every entry is trimmed and the
\* empty entries are dropped
EmptyAfterTrim(tp) ==
  \/ tp.form = "absent"
  \/ tp.form = "string" /\ \A r \in 1..Len(Split(tp.toks)) : Trim(Split(tp.toks)[r]) = <<>>
  \/ tp.form = "array" /\ \A r \in 1..Len(tp.entries) : Trim(tp.entries[r]) = <<>>

\* C11: when the enabled-tools configuration is absent, or empty after
\* trimming and dropping empty entries (string form and list form alike),
\* the registered set is exactly the default-enabled catalog entries.
C11_DefaultFallback ==
  (op = "fetch" /\ ret.kind = "handler" /\ EmptyAfterTrim(toolsParam)) =>
    Range(registeredTools) = DefaultEnabled

\* the content-fetch dependency failed: an error status, a network error or
\* a malformed body
UpstreamFailed == upKind \in {"axiosError", "error", "malformed"}

\* C12: a finished tool call carries isError exactly when the content-fetch
\* dependency failed; an empty result, an unavailable or failed conversion
\* and a failure while rendering one item give a result without isError.
C12_ErrorOnlyUpstream ==
  (handler # "none" /\ op \in {"search", "crawl"} /\ pc = "done") =>
    /\ ret.kind = "tool"
    /\ ret.val.isError <=> UpstreamFailed

\* a convertToMarkdown call that is past its guards and did not get
\* converted markdown back
FellBack ==
  /\ op = "convert" /\ pc = "done"
  /\ Truthy(content) /\ Trim(content.s) # <<>>
  /\ env = "absent" \/ ~Accepted(answer)

\* C13 as stated: on Unavailable or Failed the value returned is the text the
\* cleaning step produced, the cleaned text for text/html and the original
\* text for other mime hints.
C13_FallbackIsCleaned ==
  FellBack =>
    ret.val = IF mime = "text/html" THEN Str(cleanHtmlContent(content.s))
              ELSE content

\* C13 as amended: for text/html the blob handed to the backend carries the
\* cleaned text (the original text for other mime hints), and on Unavailable
\* or Failed the value returned is the original text, whatever the mime hint.
C13_CleanedBlobOriginalFallback ==
  /\ (op = "convert" /\ pc = "await") =>
       /\ blob.type = mime
       /\ blob.body = IF mime = "text/html" THEN cleanHtmlContent(content.s)
                      ELSE content.s
  /\ (op = "format" /\ pc = "await") =>
       /\ blob.type = "text/html"
       /\ blob.body = cleanHtmlContent(results.items[i].text.s)
  /\ FellBack => ret.val = content

C13_Witness ==
  /\ FellBack
  /\ mime = "text/html"
  /\ env = "present"
  /\ answer.kind = "throws"
  /\ cleanHtmlContent(content.s) # content.s
  /\ ret.val = content

\* C14: the backend is invoked at most once per content item, also after a
\* failed attempt, and the call for an item is made only when every earlier
\* item is finished, so at most one call is outstanding.
C14_OneCallPerItem ==
  /\ op = "format" =>
       /\ aiCalls <= (IF pc = "loop" THEN i - 1 ELSE i)
       /\ pc = "await" => (Len(log) = i - 1 /\ blob # NoBlob)
       /\ pc # "await" => blob = NoBlob
  /\ op \in {"convert", "crawl"} =>
       /\ aiCalls <= 1
       /\ pc = "done" => blob = NoBlob

C14_Witness ==
  /\ op = "format" /\ pc = "done"
  /\ Len(results.items) >= 3
  /\ faults > 0
  /\ aiCalls = Len(log)
  /\ \E k \in 1..Len(log) : log[k].clean = results.items[k].text

\* C15: a backend call that is outstanding for an item is eventually over
\* (answered or treated as failed), so the item is rendered and the function
\* goes on to return.  While the call is outstanding the code has no step
\* of its own (no timer, no race around the await at lines 88-93): only the
\* backend's answer, FormatResume, leaves the await.
C15_NoStall == (op = "format" /\ pc = "await") ~> (pc # "await")

\* C16: a document is returned only by a run that went through the whole
\* slice: it starts with the header, holds the sections of items
\* 1..min(n, 10) in input order and, for n > 10, ends with the footer; a
\* run that fails part-way returns no document.
C16_NoPartialDocument ==
  op = "format" =>
    /\ ret.kind = "doc" =>
         /\ pc = "done"
         /\ Len(results.items) > 0 =>
              /\ ret.val[1] = Line("header", 0, query)
              /\ Len(log) = Min(Len(results.items), DisplayCap)
              /\ \A k \in 1..Len(log) : log[k].path \in {"normal", "fallback"}
              /\ TitleRefs(ret.val) = [k \in 1..Len(log) |-> results.items[k].id]
              /\ (Len(results.items) > DisplayCap) <=> (ret.val[Len(ret.val)].kind = "footer")
    /\ pc \in {"loop", "await"} => ret = NoRet
    /\ pc = "threw" => ret = [kind |-> "throw", val |-> <<>>]

C16_Witness ==
  /\ op = "format" /\ pc = "threw"
  /\ Len(log) >= 2
  /\ Len(markdown) > 1
  /\ ret.kind = "throw"

\* a tool call served through the worker's fetch entry point
ViaWorker == handler # "none" /\ IsRegistered(handler)

====
